---- MODULE Spec2Model ----
(***************************************************************************)
(* OpportunityMailer: the email dispatch handler (src/lambda/email_sender) *)
(* and the helpers it relies on.  Strings are sequences of symbols: a      *)
(* symbol is a brace, a punctuation mark, or a word of the text.           *)
(***************************************************************************)
EXTENDS Integers, Sequences, FiniteSets, TLC

VARIABLES
    pc,        \* where each dispatch stands in lambda_handler
    steps,     \* the steps each dispatch has run, in order
    event,     \* the event each dispatch was invoked with
    request,   \* request_data, once validate_request returned
    html,      \* html_content, once get_template_content returned
    provider,  \* the provider's answers to the calls of each dispatch
    sent,      \* the parameters last handed to the provider
    response,  \* the response of each finished dispatch
    admitted,  \* provider calls made so far, by all dispatches
    clock,     \* seconds elapsed on the simulated clock
    storage_type,  \* TemplateManager.storage_type
    files,     \* the backend: the document kept under each template name
    stored,    \* per name, the template of the last put if it succeeded
    op,        \* the last TemplateManager call and what it gave
    gone,      \* the names deleted with success and not put with success since
    tmpl,      \* personalize_content: the template text
    tdata,     \* personalize_content: the data, in insertion order
    out,       \* the text personalize_content returned
    again,     \* the text a second call on that text returned
    phase,     \* how far the personalization has gone
    wpc,       \* concurrent TemplateManager calls: where each one stands
    job,       \* the call each one is running, and what it gave
    removed    \* per name, the deletes that returned True since the last write

dispatchVars ==
    <<pc, steps, event, request, html, provider, sent, response, admitted,
      clock>>
storeVars == <<storage_type, files, stored, op, gone>>
renderVars == <<tmpl, tdata, out, again, phase>>
raceVars == <<wpc, job, removed>>

vars == <<dispatchVars, storeVars, renderVars, raceVars>>

(***************************************************************************)
(* Bounds of the model.                                                    *)
(***************************************************************************)
NumProcs == 2
MaxSends == 11
MaxClock == 1

Procs == 1..NumProcs

(***************************************************************************)
(* Configuration defaults (config/config.py).                              *)
(***************************************************************************)
max_retries == 3
rate_limit == 10

(***************************************************************************)
(* email_utils.validate_email: the regular expression                      *)
(*   ^[a-zA-Z0-9._%+-]+@[a-zA-Z0-9.-]+\.[a-zA-Z]{2,}$                      *)
(* over symbols standing for character classes.                            *)
(***************************************************************************)
Letters == {"a", "b", "c", "o", "m", "x"}
Digits == {"1"}
LocalChars == Letters \cup Digits \cup {".", "_", "%", "+", "-"}
DomainChars == Letters \cup Digits \cup {".", "-"}

MatchesPattern(s) ==
    \E i \in 1..Len(s) : \E j \in 1..Len(s) :
        /\ i > 1
        /\ s[i] = "@"
        /\ j > i + 1
        /\ s[j] = "."
        /\ Len(s) - j >= 2
        /\ \A k \in 1..(i - 1) : s[k] \in LocalChars
        /\ \A k \in (i + 1)..(j - 1) : s[k] \in DomainChars
        /\ \A k \in (j + 1)..Len(s) : s[k] \in Letters

\* re.match with a trailing $: the end of the string, or just before a
\* final newline.
validate_email(email) ==
    \/ MatchesPattern(email)
    \/ /\ Len(email) > 0
       /\ email[Len(email)] = "\n"
       /\ MatchesPattern(SubSeq(email, 1, Len(email) - 1))

(***************************************************************************)
(* str.replace(old, new): leftmost, non-overlapping occurrences.           *)
(***************************************************************************)
RECURSIVE ReplaceFrom(_, _, _, _)
ReplaceFrom(s, old, new, i) ==
    IF i > Len(s) THEN <<>>
    ELSE IF i + Len(old) - 1 <= Len(s) /\ SubSeq(s, i, i + Len(old) - 1) = old
         THEN new \o ReplaceFrom(s, old, new, i + Len(old))
         ELSE <<s[i]>> \o ReplaceFrom(s, old, new, i + 1)

ReplaceFirstOnly(s, old, new) ==
    LET hits == {i \in 1..Len(s) : i + Len(old) - 1 <= Len(s)
                                   /\ SubSeq(s, i, i + Len(old) - 1) = old}
    IN  IF hits = {} THEN s
        ELSE LET i == CHOOSE h \in hits : \A k \in hits : h <= k
             IN  SubSeq(s, 1, i - 1) \o new \o SubSeq(s, i + Len(old), Len(s))

StrReplace(s, old, new) == ReplaceFrom(s, old, new, 1)

\* str(value) of a template_data value: a string is itself, a boolean is
\* printed True / False.
PyStr(value) ==
    IF value.kind = "str" THEN value.s
    ELSE IF value.b THEN <<"True">> ELSE <<"False">>

\* The loop of get_template_content over template_data.items(), in
\* insertion order: data is the sequence of <<key, value>> pairs.  Each
\* pass rebinds template to the replaced text before the next pass reads it.
RECURSIVE ReplaceAll(_, _, _)
ReplaceAll(template, data, n) ==
    IF n > Len(data) THEN template
    ELSE CHOOSE result \in
             {ReplaceAll(replaced, data, n + 1) :
                replaced \in {StrReplace(template,
                                         <<"{">> \o data[n][1] \o <<"}">>,
                                         PyStr(data[n][2]))}} : TRUE

(***************************************************************************)
(* The templates dictionary of get_template_content, the literal text      *)
(* between two placeholders written as one symbol.                         *)
(***************************************************************************)
Ph(name) == <<"{", name, "}">>

templates ==
    [job_application |->
        <<"Dear">> \o Ph("recruiter_name") \o <<"I am">> \o Ph("sender_name")
        \o <<"the">> \o Ph("position") \o <<"at">> \o Ph("company")
        \o <<"in">> \o Ph("background") \o Ph("custom_paragraph")
        \o <<"regards">> \o Ph("sender_name") \o Ph("sender_email")
        \o Ph("sender_phone"),
     follow_up |->
        <<"Dear">> \o Ph("recruiter_name") \o <<"the">> \o Ph("position")
        \o <<"on">> \o Ph("application_date") \o <<"join">> \o Ph("company")
        \o Ph("custom_paragraph") \o <<"regards">> \o Ph("sender_name")
        \o Ph("sender_email") \o Ph("sender_phone")]

\* The names of the templates built into TemplateManager.
default_template_names ==
    {"job_application", "follow_up", "thank_you", "connection_request"}

(***************************************************************************)
(* Request payloads.  A decoded JSON value has a kind; names is the set of *)
(* field names for which "name in value" is true (the keys of a mapping,   *)
(* the elements of a list, the substrings of a string); nulls is the set   *)
(* of keys whose value is null.                                            *)
(***************************************************************************)
required_fields == <<"recipient_email", "subject", "template_name">>
Required == {"recipient_email", "subject", "template_name"}

ValidAddr == <<"a", "@", "b", ".", "c", "o">>
OtherAddr == <<"x", ".", "1", "@", "b", "-", "c", ".", "c", "o", "m">>
NoAtAddr == <<"a", "b", ".", "c", "o">>
ShortTldAddr == <<"a", "@", "b", ".", "c">>
SpaceAddr == <<"a", " ", "@", "b", ".", "c", "o">>
NewlineAddr == <<"a", "@", "b", ".", "c", "o", "\n">>
InvalidAddrs == {NoAtAddr, ShortTldAddr, SpaceAddr}

S(s) == [kind |-> "str", s |-> s, b |-> FALSE]
B(b) == [kind |-> "bool", s |-> <<>>, b |-> b]

FullData ==
    << <<"recruiter_name", S(<<"Sam">>)>>, <<"sender_name", S(<<"Ana">>)>>,
       <<"position", S(<<"Eng">>)>>, <<"company", S(<<"Acme">>)>>,
       <<"background", S(<<"backend">>)>>,
       <<"custom_paragraph", S(<<"...">>)>>,
       <<"sender_email", S(<<"ana@x.com">>)>>,
       <<"sender_phone", S(<<"555-0100">>)>> >>
PartialData == << <<"recruiter_name", S(<<"Sam">>)>> >>
NestedData ==
    << <<"recruiter_name", S(Ph("sender_name"))>>,
       <<"sender_name", S(<<"Ana">>)>> >>
BoolData == << <<"position", B(TRUE)>> >>

\* A dict key is one word here: the placeholder of key k is { k }.
Items(data) == [n \in 1..Len(data) |-> <<<<data[n][1]>>, data[n][2]>>]

BaseValue ==
    [kind |-> "map", names |-> Required, nulls |-> {},
     recipient_email |-> ValidAddr, subject |-> <<"Hi">>,
     template_name |-> "job_application", template_data |-> <<>>,
     sender_email |-> <<>>, cc_emails |-> <<>>, reply_to_emails |-> <<>>]

Scalar(k) == [BaseValue EXCEPT !.kind = k, !.names = {}]

EmptyMap == [BaseValue EXCEPT !.names = {}]
NullValue == Scalar("null")

\* Names of templates a request may carry; "[]" stands for a JSON list
\* given as template_name (an unhashable value).
UnhashableNames == {"[]"}
TemplateNames ==
    {"job_application", "follow_up", "thank_you", "does_not_exist", "", "[]"}

MissingValues ==
    {[BaseValue EXCEPT !.names = N] : N \in (SUBSET Required) \ {Required}}

TemplateValues ==
    {[BaseValue EXCEPT !.template_name = t] : t \in TemplateNames}
    \cup {[BaseValue EXCEPT !.template_name = t,
                            !.names = Required \cup {"template_data"},
                            !.nulls = {"template_data"}]
          : t \in {"job_application", "does_not_exist"}}
    \cup {[BaseValue EXCEPT !.template_name = t,
                            !.names = Required \cup {"template_data"},
                            !.template_data = Items(d)]
          : t \in {"job_application", "follow_up"},
            d \in {<<>>, FullData, PartialData, NestedData, BoolData}}

AddressValues ==
    {[BaseValue EXCEPT !.recipient_email = a]
        : a \in InvalidAddrs \cup {<<>>, NewlineAddr}}
    \cup {[BaseValue EXCEPT !.names = Required \cup {"sender_email"},
                            !.sender_email = a]
          : a \in {OtherAddr, NoAtAddr, <<>>}}
    \cup {[BaseValue EXCEPT !.names = Required \cup {"cc_emails"},
                            !.cc_emails = l]
          : l \in {<<>>, <<OtherAddr>>, <<OtherAddr, SpaceAddr>>}}
    \cup {[BaseValue EXCEPT !.names = Required \cup {"reply_to_emails"},
                            !.reply_to_emails = l]
          : l \in {<<OtherAddr>>, <<ShortTldAddr>>}}
    \cup {[BaseValue EXCEPT
              !.names = Required \cup {"sender_email", "cc_emails",
                                       "reply_to_emails"},
              !.nulls = {"sender_email", "cc_emails", "reply_to_emails"}]}

NonMapValues ==
    {Scalar("num"), Scalar("bool"), Scalar("null")}
    \cup {[BaseValue EXCEPT !.kind = k, !.names = N]
          : k \in {"list", "str"}, N \in {{}, {"subject"}, Required}}

\* A subject that holds a placeholder of one of the template_data keys.
SubjectValues ==
    {[BaseValue EXCEPT !.subject = <<"Hi">> \o Ph("recruiter_name"),
                       !.names = Required \cup {"template_data"},
                       !.template_data = Items(FullData)]}

MapValues ==
    MissingValues \cup TemplateValues \cup AddressValues \cup SubjectValues

\* The event handed to lambda_handler: body is absent, None, a str (text,
\* which json.loads parses or not) or an already decoded value.
Ev(b, ok, v) == [body |-> b, parses |-> ok, val |-> v]

NoEvent == Ev("absent", FALSE, NullValue)

Events ==
    {Ev("absent", TRUE, NullValue), Ev("null", TRUE, NullValue),
     Ev("text", FALSE, NullValue)}
    \cup {Ev("text", TRUE, v) : v \in MapValues \cup NonMapValues}
    \cup {Ev("value", TRUE, v)
          : v \in MissingValues \cup {BaseValue, Scalar("num"),
                                      [Scalar("list") EXCEPT !.names = Required]}}

\* The requests of the concurrent specification.
ConcEvents ==
    {Ev("text", TRUE, BaseValue),
     Ev("text", TRUE, [BaseValue EXCEPT !.names = {"subject"}])}

(***************************************************************************)
(* Results of a call: exc is "" when the call returned, and the name of    *)
(* the exception raised otherwise; text and fields are the exception's     *)
(* message (str(e)).                                                       *)
(***************************************************************************)
Returned == [exc |-> "", text |-> "", fields |-> <<>>]
Raise(e, t, f) == [exc |-> e, text |-> t, fields |-> f]

\* json.loads of the body text.
json_loads(ev) ==
    IF ev.parses THEN Returned
    ELSE Raise("JSONDecodeError", "Expecting value", <<>>)

\* The value bound to body by validate_request (line 34).
BodyOf(ev) ==
    IF ev.body = "text" THEN ev.val
    ELSE IF ev.body = "absent" THEN EmptyMap
    ELSE IF ev.body = "null" THEN NullValue
    ELSE ev.val

\* "field in body" is defined for mappings, lists and strings only.
SupportsIn(body) == body.kind \in {"map", "list", "str"}

FirstMissingOnly(body) ==
    LET all == SelectSeq(required_fields, LAMBDA f : f \notin body.names)
    IN  IF all = <<>> THEN <<>> ELSE <<all[1]>>

missing_fields(body) ==
    SelectSeq(required_fields, LAMBDA f : f \notin body.names)

validate_request(ev) ==
    LET loaded == IF ev.body = "text" THEN json_loads(ev) ELSE Returned
        body == BodyOf(ev)
    IN  IF loaded.exc = "JSONDecodeError"
        THEN Raise("ValueError", "Invalid JSON in request body", <<>>)
        ELSE IF ~SupportsIn(body)
        THEN Raise("TypeError", "argument is not iterable", <<>>)
        ELSE IF missing_fields(body) # <<>>
        THEN Raise("ValueError", "Missing required fields",
                   missing_fields(body))
        ELSE Returned

\* lambda_handler lines 196-205: request_data[...] needs a mapping;
\* request_data.get(name, default) gives the default for an absent key and
\* None for a null value.
ExtractFields(body) ==
    IF body.kind # "map"
    THEN Raise("TypeError", "indices must be integers", <<>>)
    ELSE Returned

IsNone(body, name) == name \in body.nulls
Has(body, name) == name \in body.names /\ name \notin body.nulls

TemplateDataRequired(body) ==
    [none |-> ~Has(body, "template_data"),
     items |-> IF Has(body, "template_data") THEN body.template_data ELSE <<>>]

TemplateData(body) ==
    [none |-> IsNone(body, "template_data"),
     items |-> IF Has(body, "template_data") THEN body.template_data ELSE <<>>]

\* get_template_content lines 108-111: the lookup.
LookupDefaultsToFirst(template_name) == Returned

lookup_template(template_name) ==
    IF template_name \in UnhashableNames
    THEN Raise("TypeError", "unhashable type", <<>>)
    ELSE IF template_name \notin DOMAIN templates
    THEN Raise("ValueError", "Template not found", <<template_name>>)
    ELSE Returned

TemplateText(template_name) ==
    IF template_name \in DOMAIN templates THEN templates[template_name]
    ELSE templates["job_application"]

RejectUnfilled(template_name, template_data) ==
    IF template_data.none
    THEN Raise("AttributeError", "'NoneType' object has no attribute 'items'",
               <<>>)
    ELSE LET text == ReplaceAll(TemplateText(template_name),
                                template_data.items, 1)
         IN  IF \E i \in 1..Len(text) : text[i] = "{"
             THEN Raise("ValueError", "Unfilled placeholders", <<>>)
             ELSE Returned

\* get_template_content lines 113-119: the substitution loop.
personalize(template_name, template_data) ==
    IF template_data.none
    THEN Raise("AttributeError", "'NoneType' object has no attribute 'items'",
               <<>>)
    ELSE Returned

Rendered(template_name, template_data) ==
    ReplaceAll(TemplateText(template_name), template_data.items, 1)

(***************************************************************************)
(* send_email: the parameters handed to the provider, and the call.        *)
(***************************************************************************)
DefaultSender == <<"n", "o", "@", "x", ".", "c", "o", "m">>

NoMessage ==
    [Source |-> <<>>, ToAddresses |-> <<>>, CcAddresses |-> <<>>,
     ReplyToAddresses |-> <<>>, Subject |-> <<>>, Html |-> <<>>]

email_params(body, html_content) ==
    [Source |-> IF Has(body, "sender_email") /\ body.sender_email # <<>>
                THEN body.sender_email ELSE DefaultSender,
     ToAddresses |-> <<body.recipient_email>>,
     CcAddresses |-> IF Has(body, "cc_emails") THEN body.cc_emails ELSE <<>>,
     ReplyToAddresses |-> IF Has(body, "reply_to_emails")
                          THEN body.reply_to_emails ELSE <<>>,
     Subject |-> body.subject,
     Html |-> html_content]

\* What the provider answers to one call: a message id, a ClientError with
\* a throttling or a rejection code, or an exception that is no ClientError.
MessageIds == {"m1", "m2"}
RetryableErrors == {"Throttling"}
PermanentErrors == {"MessageRejected"}
ClientErrors == RetryableErrors \cup PermanentErrors
\* Exceptions of the client library that are no ClientError: no connection,
\* or no answer within the library's read timeout.
OtherErrors == {"EndpointConnectionError", "ReadTimeoutError"}
Outcomes == MessageIds \cup ClientErrors \cup OtherErrors

\* The provider's answers to the successive calls of one dispatch.
MaxAttempts == max_retries + 1
Behaviours == [1..MaxAttempts -> Outcomes]

RECURSIVE CallsUntil(_, _, _)
CallsUntil(behaviour, n, stop) ==
    IF n >= MaxAttempts \/ behaviour[n] \in stop THEN <<behaviour[n]>>
    ELSE <<behaviour[n]>> \o CallsUntil(behaviour, n + 1, stop)

\* A send_email that calls again after any ClientError.
RetryingCalls(behaviour) ==
    CallsUntil(behaviour, 1, MessageIds \cup OtherErrors)

\* The provider calls send_email makes (lines 173-179): one.
provider_calls(behaviour) == <<behaviour[1]>>

send_email(calls) ==
    LET last == calls[Len(calls)]
    IN  IF last \in MessageIds THEN Returned
        ELSE IF last \in ClientErrors THEN Raise("ClientError", last, <<>>)
        ELSE Raise(last, "Could not connect to the endpoint URL", <<>>)

(***************************************************************************)
(* lambda_handler: the responses.                                          *)
(***************************************************************************)
NoResponse ==
    [raised |-> FALSE, statusCode |-> 0, keys |-> {}, error |-> "",
     message |-> "", fields |-> <<>>, messageId |-> ""]

Failure(code, error, r) ==
    [raised |-> FALSE, statusCode |-> code, keys |-> {"error", "message"},
     error |-> error, message |-> r.text, fields |-> r.fields,
     messageId |-> ""]

SuccessWithoutId(message_id) ==
    [raised |-> FALSE, statusCode |-> 200, keys |-> {"message"},
     error |-> "", message |-> "Email sent successfully", fields |-> <<>>,
     messageId |-> ""]

\* lines 221-228.
success_response(message_id) ==
    [raised |-> FALSE, statusCode |-> 200, keys |-> {"message", "messageId"},
     error |-> "", message |-> "Email sent successfully", fields |-> <<>>,
     messageId |-> message_id]

Escapes(r) == [NoResponse EXCEPT !.raised = TRUE, !.message = r.exc]

OnlyKnownErrors(r) ==
    IF r.exc \in {"ValueError", "JSONDecodeError"}
    THEN Failure(400, "Validation error", r)
    ELSE IF r.exc = "ClientError"
    THEN Failure(500, "Email sending failed", r)
    ELSE Escapes(r)

ClientErrorAsValidation(r) ==
    IF r.exc \in {"ValueError", "JSONDecodeError", "ClientError"}
    THEN Failure(400, "Validation error", r)
    ELSE Failure(500, "Internal server error", r)

\* lines 229-261: the except clauses, in order.
error_response(r) ==
    IF r.exc \in {"ValueError", "JSONDecodeError"}
    THEN Failure(400, "Validation error", r)
    ELSE IF r.exc = "ClientError"
    THEN Failure(500, "Email sending failed", r)
    ELSE Failure(500, "Internal server error", r)

(***************************************************************************)
(* TemplateManager.  A template is a dict: fields is the set of its keys.  *)
(***************************************************************************)
Tpl(n, subj, body) ==
    [fields |-> {"name", "subject", "html_content"}, name |-> n,
     subject |-> subj, html_content |-> body, description |-> ""]

Builtin(n, subj, body, d) ==
    [fields |-> {"name", "subject", "description", "html_content"},
     name |-> n, subject |-> subj, html_content |-> body, description |-> d]

NoTemplate == [Tpl("", <<>>, <<>>) EXCEPT !.fields = {}]

\* self.default_templates, and the order of its entries.
default_order ==
    <<"job_application", "follow_up", "thank_you", "connection_request">>

default_templates ==
    [n \in default_template_names |->
        CASE n = "job_application" ->
                Builtin(n, <<"Application for">> \o Ph("position")
                           \o <<"position at">> \o Ph("company"),
                        templates["job_application"], "Initial job application")
          [] n = "follow_up" ->
                Builtin(n, <<"Following up on">> \o Ph("position")
                           \o <<"application at">> \o Ph("company"),
                        templates["follow_up"], "Follow-up email")
          [] n = "thank_you" ->
                Builtin(n, <<"Thank you for the interview">> \o Ph("position")
                           \o <<"position">>,
                        <<"Dear">> \o Ph("recruiter_name") \o <<"the">>
                        \o Ph("position") \o <<"at">> \o Ph("company")
                        \o Ph("interview_highlights") \o <<"skills in">>
                        \o Ph("skills") \o <<"regards">> \o Ph("sender_name")
                        \o Ph("sender_email") \o Ph("sender_phone"),
                        "Thank you email")
          [] OTHER ->
                Builtin(n, <<"Connecting with a fellow">> \o Ph("industry")
                           \o <<"professional">>,
                        <<"Dear">> \o Ph("recipient_name") \o <<"I am">>
                        \o Ph("sender_name") \o Ph("introduction_context")
                        \o <<"because">> \o Ph("connection_reason")
                        \o Ph("recipient_expertise") \o Ph("specific_request")
                        \o <<"regards">> \o Ph("sender_name")
                        \o Ph("sender_email") \o Ph("sender_phone"),
                        "Connection request")]

\* The names a backend document may be kept under.
FileNames == {"job_application", "welcome", ""}

\* The templates handed to save_template.
SaveInputs ==
    {Tpl("job_application", <<"s1">>, <<"h">>),
     Tpl("welcome", <<"s1">>, <<"h">>), Tpl("welcome", <<"s2">>, <<"h">>),
     Tpl("", <<"s1">>, <<"h">>), Tpl("welcome", <<>>, <<"h">>),
     Tpl("welcome", <<"s1">>, <<>>)}
    \cup {[Tpl("welcome", <<"s1">>, <<"h">>) EXCEPT
              !.fields = @ \cup {"description"}, !.description = "d"]}
    \cup {[Tpl("welcome", <<"s1">>, <<"h">>) EXCEPT !.fields = F]
          : F \in (SUBSET {"name", "subject", "html_content"})
                  \ {{"name", "subject", "html_content"}}}

\* The names handed to get_template and delete_template.
LookupNames == FileNames \cup {"thank_you"}

\* What can go wrong in the backend during a call: nothing, the open (or
\* the request) fails, or the write fails after the file was truncated.
Faults == {"none", "open", "write"}

(***************************************************************************)
(* Documents of the backend: json.dump writes the keys of the dict with    *)
(* their values, json.load reads them back.                                *)
(***************************************************************************)
NoFile == [state |-> "absent", pairs |-> <<>>]
Corrupt == [state |-> "corrupt", pairs |-> <<>>]

key_order == <<"name", "subject", "html_content", "description">>

Encode(t, k) ==
    CASE k = "name" -> <<t.name>>
      [] k = "subject" -> t.subject
      [] k = "html_content" -> t.html_content
      [] OTHER -> <<t.description>>

json_dump(t) ==
    LET keys == SelectSeq(key_order, LAMBDA k : k \in t.fields)
    IN  [state |-> "json",
         pairs |-> [i \in 1..Len(keys) |-> <<keys[i], Encode(t, keys[i])>>]]

DocKeys(doc) == {doc.pairs[i][1] : i \in 1..Len(doc.pairs)}

DocValue(doc, k, default) ==
    IF k \in DocKeys(doc)
    THEN doc.pairs[CHOOSE i \in 1..Len(doc.pairs) : doc.pairs[i][1] = k][2]
    ELSE default

json_load(doc) ==
    [fields |-> DocKeys(doc),
     name |-> DocValue(doc, "name", <<"">>)[1],
     subject |-> DocValue(doc, "subject", <<>>),
     html_content |-> DocValue(doc, "html_content", <<>>),
     description |-> DocValue(doc, "description", <<"">>)[1]]

(***************************************************************************)
(* The calls.  Each gives [res, ret, value, files]: the exception raised   *)
(* if any, the boolean returned, the template returned, the backend after. *)
(***************************************************************************)
Gave(r, b, v, f) == [res |-> r, ret |-> b, value |-> v, files |-> f]

\* _get_local_template.
get_local_template(fs, template_name) ==
    IF fs[template_name].state = "absent"
    THEN Gave(Raise("ValueError", "Template not found", <<template_name>>),
              FALSE, NoTemplate, fs)
    ELSE IF fs[template_name].state = "corrupt"
    THEN Gave(Raise("ValueError", "Error loading template", <<>>),
              FALSE, NoTemplate, fs)
    ELSE Gave(Returned, TRUE, json_load(fs[template_name]), fs)

\* _get_s3_template.
get_s3_template(fs, template_name) ==
    IF fs[template_name].state = "absent"
    THEN Gave(Raise("ValueError", "Template not found", <<template_name>>),
              FALSE, NoTemplate, fs)
    ELSE Gave(Returned, TRUE, json_load(fs[template_name]), fs)

BackendFirst(kind, fs, template_name) ==
    IF template_name \in DOMAIN fs /\ fs[template_name].state = "json"
    THEN Gave(Returned, TRUE, json_load(fs[template_name]), fs)
    ELSE IF template_name \in DOMAIN default_templates
    THEN Gave(Returned, TRUE, default_templates[template_name], fs)
    ELSE get_local_template(fs, template_name)

get_template(kind, fs, template_name) ==
    IF template_name \in DOMAIN default_templates
    THEN Gave(Returned, TRUE, default_templates[template_name], fs)
    ELSE IF kind = "local" THEN get_local_template(fs, template_name)
    ELSE get_s3_template(fs, template_name)

KeepExisting(fs, template, fault) ==
    IF fault = "open" THEN Gave(Returned, FALSE, NoTemplate, fs)
    ELSE IF fault = "write"
    THEN Gave(Returned, FALSE, NoTemplate,
              [fs EXCEPT ![template.name] = Corrupt])
    ELSE Gave(Returned, TRUE, NoTemplate,
              IF fs[template.name].state = "json" THEN fs
              ELSE [fs EXCEPT ![template.name] = json_dump(template)])

\* _save_local_template: open(path, 'w') truncates, json.dump writes.
save_local_template(fs, template, fault) ==
    IF fault = "open" THEN Gave(Returned, FALSE, NoTemplate, fs)
    ELSE IF fault = "write"
    THEN Gave(Returned, FALSE, NoTemplate,
              [fs EXCEPT ![template.name] = Corrupt])
    ELSE Gave(Returned, TRUE, NoTemplate,
              [fs EXCEPT ![template.name] = json_dump(template)])

\* _save_s3_template: put_object writes the whole object or nothing.
save_s3_template(fs, template, fault) ==
    IF fault # "none" THEN Gave(Returned, FALSE, NoTemplate, fs)
    ELSE Gave(Returned, TRUE, NoTemplate,
              [fs EXCEPT ![template.name] = json_dump(template)])

tm_required_fields == <<"name", "subject", "html_content">>

WriteBeforeCheck(kind, fs, template, fault) ==
    LET missing == SelectSeq(tm_required_fields,
                             LAMBDA f : f \notin template.fields)
        g == IF kind = "local" THEN save_local_template(fs, template, fault)
             ELSE save_s3_template(fs, template, fault)
    IN  IF missing # <<>>
        THEN Gave(Raise("ValueError", "Template missing required fields",
                        missing), FALSE, NoTemplate, g.files)
        ELSE g

save_template(kind, fs, template, fault) ==
    LET missing == SelectSeq(tm_required_fields,
                             LAMBDA f : f \notin template.fields)
    IN  IF missing # <<>>
        THEN Gave(Raise("ValueError", "Template missing required fields",
                        missing), FALSE, NoTemplate, fs)
        ELSE IF kind = "local" THEN save_local_template(fs, template, fault)
        ELSE save_s3_template(fs, template, fault)

\* _delete_local_template: os.path.exists, then os.remove.
delete_local_template(fs, template_name, fault) ==
    IF fs[template_name].state = "absent"
    THEN Gave(Raise("ValueError", "Template not found", <<template_name>>),
              FALSE, NoTemplate, fs)
    ELSE IF fault # "none" THEN Gave(Returned, FALSE, NoTemplate, fs)
    ELSE Gave(Returned, TRUE, NoTemplate, [fs EXCEPT ![template_name] = NoFile])

\* _delete_s3_template: head_object, then delete_object; a ClientError
\* other than 404 gives False.
delete_s3_template(fs, template_name, fault) ==
    IF fault # "none" THEN Gave(Returned, FALSE, NoTemplate, fs)
    ELSE IF fs[template_name].state = "absent"
    THEN Gave(Raise("ValueError", "Template not found", <<template_name>>),
              FALSE, NoTemplate, fs)
    ELSE Gave(Returned, TRUE, NoTemplate, [fs EXCEPT ![template_name] = NoFile])

DeleteUnguarded(kind, fs, template_name, fault) ==
    IF kind = "local" THEN delete_local_template(fs, template_name, fault)
    ELSE delete_s3_template(fs, template_name, fault)

delete_template(kind, fs, template_name, fault) ==
    IF template_name \in DOMAIN default_templates
    THEN Gave(Raise("ValueError", "Cannot delete default template",
                    <<template_name>>), FALSE, NoTemplate, fs)
    ELSE IF kind = "local" THEN delete_local_template(fs, template_name, fault)
    ELSE delete_s3_template(fs, template_name, fault)

\* _list_local_templates / _list_s3_templates: the documents are loaded in
\* the order the backend lists them; the first one that fails to load ends
\* the loop with what was collected.
RECURSIVE LoadInOrder(_, _, _)
LoadInOrder(fs, order, i) ==
    IF i > Len(order) \/ fs[order[i]].state # "json" THEN <<>>
    ELSE <<json_load(fs[order[i]])>> \o LoadInOrder(fs, order, i + 1)

list_templates(fs, order) ==
    [i \in 1..Len(default_order) |-> default_templates[default_order[i]]]
    \o LoadInOrder(fs, order, 1)

\* The orders in which the backend may list the documents it holds.
Listings(fs) ==
    LET present == {n \in FileNames : fs[n].state # "absent"}
    IN  {o \in [1..Cardinality(present) -> present] :
            \A i, j \in 1..Cardinality(present) : i # j => o[i] # o[j]}

(***************************************************************************)
(* A TemplateManager over its backend, one call at a time.                 *)
(***************************************************************************)
NothingStored == [t |-> NoTemplate, over |-> FALSE]

NoOp ==
    [kind |-> "none", name |-> "", tmpl |-> NoTemplate, fault |-> "none",
     before |-> "absent", res |-> Returned, ret |-> FALSE,
     value |-> NoTemplate, listing |-> <<>>]

Called(k, n, t, fault, g, l) ==
    [kind |-> k, name |-> n, tmpl |-> t, fault |-> fault,
     before |-> IF n \in DOMAIN files THEN files[n].state ELSE "absent",
     res |-> g.res, ret |-> g.ret,
     value |-> g.value, listing |-> l]

StoreIdle ==
    /\ storage_type = "local"
    /\ files = [n \in FileNames |-> NoFile]
    /\ stored = [n \in FileNames |-> NothingStored]
    /\ op = NoOp
    /\ gone = {}

\* __init__ with storage_type 'local' or 's3', over an empty backend.
StoreInit ==
    /\ storage_type \in {"local", "s3"}
    /\ files = [n \in FileNames |-> NoFile]
    /\ stored = [n \in FileNames |-> NothingStored]
    /\ op = NoOp
    /\ gone = {}

Get(template_name) ==
    LET g == get_template(storage_type, files, template_name)
    IN  /\ op' = Called("get", template_name, NoTemplate, "none", g, <<>>)
        /\ UNCHANGED <<storage_type, files, stored, gone>>

Save(template, fault) ==
    LET g == save_template(storage_type, files, template, fault)
        n == template.name
    IN  /\ files' = g.files
        /\ op' = Called("save", n, template, fault, g, <<>>)
        /\ stored' =
              IF g.res.exc = "" /\ g.ret
              THEN [stored EXCEPT ![n] =
                       [t |-> template,
                        over |-> files[n].state = "json"
                                 /\ files[n] # json_dump(template)]]
              ELSE IF g.files # files
              THEN [stored EXCEPT ![n] = NothingStored]
              ELSE stored
        /\ gone' = IF g.res.exc = "" /\ g.ret THEN gone \ {n} ELSE gone
        /\ UNCHANGED storage_type

Delete(template_name, fault) ==
    LET g == delete_template(storage_type, files, template_name, fault)
    IN  /\ files' = g.files
        /\ op' = Called("delete", template_name, NoTemplate, fault, g, <<>>)
        /\ stored' = IF g.files # files
                     THEN [stored EXCEPT ![template_name] = NothingStored]
                     ELSE stored
        /\ gone' = IF g.res.exc = "" /\ g.ret
                   THEN gone \cup {template_name} ELSE gone
        /\ UNCHANGED storage_type

List(order) ==
    /\ op' = Called("list", "", NoTemplate, "none",
                    Gave(Returned, TRUE, NoTemplate, files),
                    list_templates(files, order))
    /\ UNCHANGED <<storage_type, files, stored, gone>>

(***************************************************************************)
(* TemplateManager calls running concurrently over one backend.  A local   *)
(* put is open(path, 'w'), which creates or truncates the file, then the   *)
(* write of the document when the file is closed; a delete is a check      *)
(* (os.path.exists, head_object) then a removal (os.remove,                *)
(* delete_object); put_object and a read are one step each.                *)
(***************************************************************************)
NoJob ==
    [kind |-> "none", name |-> "", tmpl |-> NoTemplate, orphan |-> FALSE,
     res |-> Returned, ret |-> FALSE, value |-> NoTemplate]

Job(k, n, t) == [NoJob EXCEPT !.kind = k, !.name = n, !.tmpl = t]

\* The templates put and the names read and deleted concurrently.
RaceInputs ==
    {Tpl("welcome", <<"s1">>, <<"h">>), Tpl("", <<"s1">>, <<"h">>),
     [Tpl("welcome", <<"s2">>, <<"h">>) EXCEPT
         !.fields = @ \cup {"description"}, !.description = "d"]}

RaceNames == {"welcome", ""}

RaceIdle ==
    /\ wpc = [p \in Procs |-> "idle"]
    /\ job = [p \in Procs |-> NoJob]
    /\ removed = [n \in FileNames |-> 0]

\* A write at offset 0 of a file that was not truncated since: what the
\* file held beyond the end of the new document stays.
Overlay(existing, doc) ==
    IF Len(existing.pairs) > Len(doc.pairs)
    THEN [state |-> "corrupt",
          pairs |-> doc.pairs \o SubSeq(existing.pairs, Len(doc.pairs) + 1,
                                        Len(existing.pairs))]
    ELSE doc

\* save_template on the local backend, up to open(template_path, 'w').
OpenForWrite(p, template) ==
    /\ storage_type = "local"
    /\ wpc[p] = "idle"
    /\ wpc' = [wpc EXCEPT ![p] = "opened"]
    /\ job' = [job EXCEPT ![p] = Job("save", template.name, template)]
    /\ files' = [files EXCEPT ![template.name] = Corrupt]
    /\ removed' = [removed EXCEPT ![template.name] = 0]

\* json.dump and the end of the with block: the document reaches the file
\* the descriptor refers to, which is no longer in the directory when the
\* name was removed meanwhile.
CloseAfterWrite(p) ==
    /\ wpc[p] = "opened"
    /\ wpc' = [wpc EXCEPT ![p] = "done"]
    /\ job' = [job EXCEPT ![p].ret = TRUE]
    /\ files' = IF job[p].orphan THEN files
                ELSE [files EXCEPT ![job[p].name] =
                         Overlay(@, json_dump(job[p].tmpl))]
    /\ UNCHANGED removed

\* save_template on S3: put_object.
PutObject(p, template) ==
    /\ storage_type = "s3"
    /\ wpc[p] = "idle"
    /\ wpc' = [wpc EXCEPT ![p] = "done"]
    /\ job' = [job EXCEPT ![p] =
                  [Job("save", template.name, template) EXCEPT !.ret = TRUE]]
    /\ files' = [files EXCEPT ![template.name] = json_dump(template)]
    /\ removed' = [removed EXCEPT ![template.name] = 0]

\* get_template.
ReadTemplate(p, template_name) ==
    /\ wpc[p] = "idle"
    /\ wpc' = [wpc EXCEPT ![p] = "done"]
    /\ LET g == get_template(storage_type, files, template_name)
       IN  job' = [job EXCEPT ![p] =
                      [Job("get", template_name, NoTemplate) EXCEPT
                          !.res = g.res, !.ret = g.ret, !.value = g.value]]
    /\ UNCHANGED <<files, removed>>

\* delete_template up to the existence check.
CheckExists(p, template_name) ==
    /\ wpc[p] = "idle"
    /\ IF files[template_name].state = "absent"
       THEN /\ wpc' = [wpc EXCEPT ![p] = "done"]
            /\ job' = [job EXCEPT ![p] =
                          [Job("delete", template_name, NoTemplate) EXCEPT
                              !.res = Raise("ValueError", "Template not found",
                                            <<template_name>>)]]
       ELSE /\ wpc' = [wpc EXCEPT ![p] = "checked"]
            /\ job' = [job EXCEPT ![p] =
                          Job("delete", template_name, NoTemplate)]
    /\ UNCHANGED <<files, removed>>

\* os.remove raises when the file is gone, and False is returned;
\* delete_object answers the same whether the key is there or not.
RemoveChecked(p) ==
    LET n == job[p].name
        there == files[n].state # "absent"
        ok == storage_type = "s3" \/ there
    IN  /\ wpc[p] = "checked"
        /\ wpc' = [wpc EXCEPT ![p] = "done"]
        /\ job' = [q \in Procs |->
                      IF q = p THEN [job[q] EXCEPT !.ret = ok]
                      ELSE IF there /\ wpc[q] = "opened" /\ job[q].name = n
                      THEN [job[q] EXCEPT !.orphan = TRUE]
                      ELSE job[q]]
        /\ files' = [files EXCEPT ![n] = NoFile]
        /\ removed' = IF ok THEN [removed EXCEPT ![n] = @ + 1] ELSE removed

\* The call has returned; the thread is free for the next one.
Forget(p) ==
    /\ wpc[p] = "done"
    /\ wpc' = [wpc EXCEPT ![p] = "idle"]
    /\ job' = [job EXCEPT ![p] = NoJob]
    /\ UNCHANGED <<files, removed>>

(***************************************************************************)
(* personalize_content, applied to a template and a data map, and applied  *)
(* again to its own output.                                                *)
(***************************************************************************)
MaxPieces == 3
MaxEntries == 2

Pieces == {Ph("a"), Ph("b"), <<"{">>, <<"}">>, <<"w">>}

RECURSIVE Concats(_)
Concats(n) ==
    IF n = 0 THEN {<<>>}
    ELSE LET shorter == Concats(n - 1)
         IN  shorter \cup {t \o piece : t \in shorter, piece \in Pieces}

TemplateTexts == Concats(MaxPieces)

Keys == {<<"a">>, <<"b">>, <<>>}
Values == {S(<<"x">>), S(Ph("b")), S(<<"{", "}">>)}

\* Data maps as dict.items() gives them: distinct keys, in insertion order.
DataMaps ==
    UNION {{d \in [1..n -> Keys \X Values] :
               \A i, j \in 1..n : i # j => d[i][1] # d[j][1]}
           : n \in 0..MaxEntries}

personalize_content(template, data) == ReplaceAll(template, data, 1)

\* re.findall(r'{([^{}]+)}', personalized): the names between a "{" and the
\* next "}" with no brace in between.
IsBrace(c) == c \in {"{", "}"}

BraceFree(s) == \A i \in 1..Len(s) : ~IsBrace(s[i])

IsToken(s, i, j) ==
    /\ i + 1 < j
    /\ s[i] = "{"
    /\ s[j] = "}"
    /\ BraceFree(SubSeq(s, i + 1, j - 1))

remaining_placeholders(s) ==
    {SubSeq(s, i + 1, j - 1) :
        <<i, j>> \in {ij \in (1..Len(s)) \X (1..Len(s)) : IsToken(s, ij[1], ij[2])}}

RenderIdle ==
    /\ tmpl = <<>>
    /\ tdata = <<>>
    /\ out = <<>>
    /\ again = <<>>
    /\ phase = "idle"

RenderInit ==
    /\ tmpl \in TemplateTexts
    /\ tdata \in DataMaps
    /\ out = <<>>
    /\ again = <<>>
    /\ phase = "given"

ApplyPersonalize ==
    /\ phase = "given"
    /\ out' = personalize_content(tmpl, tdata)
    /\ phase' = "rendered"
    /\ UNCHANGED <<tmpl, tdata, again>>

ApplyAgain ==
    /\ phase = "rendered"
    /\ again' = personalize_content(out, tdata)
    /\ phase' = "again"
    /\ UNCHANGED <<tmpl, tdata, out>>

(***************************************************************************)
(* The dispatch, step by step.                                             *)
(***************************************************************************)
DispatchInit ==
    /\ pc = [p \in Procs |-> "idle"]
    /\ steps = [p \in Procs |-> <<>>]
    /\ event = [p \in Procs |-> NoEvent]
    /\ request = [p \in Procs |-> NullValue]
    /\ html = [p \in Procs |-> <<>>]
    /\ provider = [p \in Procs |-> <<>>]
    /\ sent = [p \in Procs |-> NoMessage]
    /\ response = [p \in Procs |-> NoResponse]
    /\ admitted = 0
    /\ clock = 0

Init == DispatchInit /\ StoreIdle /\ RenderIdle /\ RaceIdle

Finish(p, r) ==
    /\ pc' = [pc EXCEPT ![p] = "done"]
    /\ response' = [response EXCEPT ![p] = r]

Continue(p, next) ==
    /\ pc' = [pc EXCEPT ![p] = next]
    /\ UNCHANGED response

\* lambda_handler line 194: validate_request(event).
Validate(p, ev) ==
    /\ pc[p] = "idle"
    /\ event' = [event EXCEPT ![p] = ev]
    /\ steps' = [steps EXCEPT ![p] = <<"validate">>]
    /\ LET r == validate_request(ev)
       IN  IF r.exc = ""
           THEN /\ request' = [request EXCEPT ![p] = BodyOf(ev)]
                /\ Continue(p, "validated")
           ELSE /\ UNCHANGED request
                /\ Finish(p, error_response(r))
    /\ UNCHANGED <<html, provider, sent, admitted, clock>>
    /\ UNCHANGED <<storeVars, renderVars, raceVars>>

\* lines 196-208 and 108-111: the fields are read and the template is
\* looked up.
Resolve(p) ==
    /\ pc[p] = "validated"
    /\ steps' = [steps EXCEPT ![p] = Append(@, "resolve")]
    /\ LET x == ExtractFields(request[p])
           r == IF x.exc # "" THEN x
                ELSE lookup_template(request[p].template_name)
       IN  IF r.exc = "" THEN Continue(p, "resolved")
           ELSE Finish(p, error_response(r))
    /\ UNCHANGED <<event, request, html, provider, sent, admitted, clock>>
    /\ UNCHANGED <<storeVars, renderVars, raceVars>>

\* lines 113-119: the placeholders are replaced.
Render(p) ==
    /\ pc[p] = "resolved"
    /\ steps' = [steps EXCEPT ![p] = Append(@, "render")]
    /\ LET name == request[p].template_name
           data == TemplateData(request[p])
           r == personalize(name, data)
       IN  IF r.exc = ""
           THEN /\ html' = [html EXCEPT ![p] = Rendered(name, data)]
                /\ Continue(p, "rendered")
           ELSE /\ UNCHANGED html
                /\ Finish(p, error_response(r))
    /\ UNCHANGED <<event, request, provider, sent, admitted, clock>>
    /\ UNCHANGED <<storeVars, renderVars, raceVars>>

\* lines 211-228: send_email and the response.
Send(p, behaviour) ==
    /\ pc[p] = "rendered"
    /\ admitted < MaxSends
    /\ steps' = [steps EXCEPT ![p] = Append(@, "send")]
    /\ LET calls == provider_calls(behaviour)
           r == send_email(calls)
       IN  /\ provider' = [provider EXCEPT ![p] = calls]
           /\ admitted' = admitted + Len(calls)
           /\ sent' = [sent EXCEPT ![p] = email_params(request[p], html[p])]
           /\ Finish(p, IF r.exc = "" THEN success_response(calls[Len(calls)])
                        ELSE error_response(r))
    /\ UNCHANGED <<event, request, html, clock>>
    /\ UNCHANGED <<storeVars, renderVars, raceVars>>

\* The response is returned; the next invocation starts afresh.
Return(p) ==
    /\ pc[p] = "done"
    /\ pc' = [pc EXCEPT ![p] = "idle"]
    /\ steps' = [steps EXCEPT ![p] = <<>>]
    /\ event' = [event EXCEPT ![p] = NoEvent]
    /\ request' = [request EXCEPT ![p] = NullValue]
    /\ html' = [html EXCEPT ![p] = <<>>]
    /\ provider' = [provider EXCEPT ![p] = <<>>]
    /\ sent' = [sent EXCEPT ![p] = NoMessage]
    /\ response' = [response EXCEPT ![p] = NoResponse]
    /\ UNCHANGED <<admitted, clock>>
    /\ UNCHANGED <<storeVars, renderVars, raceVars>>

\* One second passes on the simulated clock.
Tick ==
    /\ clock < MaxClock
    /\ clock' = clock + 1
    /\ UNCHANGED <<pc, steps, event, request, html, provider, sent, response,
                   admitted>>
    /\ UNCHANGED <<storeVars, renderVars, raceVars>>

\* One execution environment handles one invocation at a time.
Sequential == {1}

Next ==
    \/ \E p \in Sequential : \E ev \in Events : Validate(p, ev)
    \/ \E p \in Sequential : Resolve(p)
    \/ \E p \in Sequential : Render(p)
    \/ \E p \in Sequential : \E b \in Behaviours : Send(p, b)
    \/ \E p \in Sequential : Return(p)
    \/ Tick

Spec == Init /\ [][Next]_vars

\* The provider gives the same answer to every call of a dispatch.
SteadyBehaviours == {[n \in 1..MaxAttempts |-> o] : o \in Outcomes}

\* send_email line 174 when the provider never answers: the call is made
\* with no deadline of its own (the client of line 18 is built without
\* one), so the handler stays inside it.
Unanswered(p) ==
    /\ pc[p] = "rendered"
    /\ admitted < MaxSends
    /\ steps' = [steps EXCEPT ![p] = Append(@, "send")]
    /\ provider' = [provider EXCEPT ![p] = <<"NoAnswer">>]
    /\ admitted' = admitted + 1
    /\ sent' = [sent EXCEPT ![p] = email_params(request[p], html[p])]
    /\ Continue(p, "calling")
    /\ UNCHANGED <<event, request, html, clock>>
    /\ UNCHANGED <<storeVars, renderVars, raceVars>>

NextLive ==
    \/ \E p \in Sequential : \E ev \in Events : Validate(p, ev)
    \/ \E p \in Sequential : Resolve(p)
    \/ \E p \in Sequential : Render(p)
    \/ \E p \in Sequential : \E b \in SteadyBehaviours : Send(p, b)
    \/ \E p \in Sequential : Unanswered(p)
    \/ \E p \in Sequential : Return(p)
    \/ Tick

\* The interpreter runs the statements of a started handler to the end.
HandlerRuns ==
    \A p \in Sequential :
        /\ WF_vars(Resolve(p))
        /\ WF_vars(Render(p))
        /\ WF_vars((\E b \in SteadyBehaviours : Send(p, b)) \/ Unanswered(p))

SpecLive == Init /\ [][NextLive]_vars /\ HandlerRuns

\* Dispatches running concurrently in one process.
NextConc ==
    \/ \E p \in Procs : \E ev \in ConcEvents : Validate(p, ev)
    \/ \E p \in Procs : Resolve(p)
    \/ \E p \in Procs : Render(p)
    \/ \E p \in Procs : \E b \in Behaviours : Send(p, b)
    \/ \E p \in Procs : Return(p)
    \/ Tick

SpecConc == Init /\ [][NextConc]_vars

\* The template manager alone.
NextStore ==
    \/ \E n \in LookupNames : Get(n) /\ UNCHANGED <<dispatchVars, renderVars, raceVars>>
    \/ \E t \in SaveInputs, f \in Faults :
          Save(t, f) /\ UNCHANGED <<dispatchVars, renderVars, raceVars>>
    \/ \E n \in LookupNames, f \in Faults :
          Delete(n, f) /\ UNCHANGED <<dispatchVars, renderVars, raceVars>>
    \/ \E o \in Listings(files) :
          List(o) /\ UNCHANGED <<dispatchVars, renderVars, raceVars>>

InitStore == DispatchInit /\ StoreInit /\ RenderIdle /\ RaceIdle

SpecStore == InitStore /\ [][NextStore]_vars

\* personalize_content alone.
NextRender ==
    \/ ApplyPersonalize /\ UNCHANGED <<dispatchVars, storeVars, raceVars>>
    \/ ApplyAgain /\ UNCHANGED <<dispatchVars, storeVars, raceVars>>

InitRender == DispatchInit /\ StoreIdle /\ RenderInit /\ RaceIdle

SpecRender == InitRender /\ [][NextRender]_vars

\* Template manager calls running concurrently.
RaceFrame == UNCHANGED <<dispatchVars, renderVars, storage_type, stored, op, gone>>

NextRace ==
    \/ \E p \in Procs, t \in RaceInputs : OpenForWrite(p, t) /\ RaceFrame
    \/ \E p \in Procs : CloseAfterWrite(p) /\ RaceFrame
    \/ \E p \in Procs, t \in RaceInputs : PutObject(p, t) /\ RaceFrame
    \/ \E p \in Procs, n \in RaceNames : ReadTemplate(p, n) /\ RaceFrame
    \/ \E p \in Procs, n \in RaceNames : CheckExists(p, n) /\ RaceFrame
    \/ \E p \in Procs : RemoveChecked(p) /\ RaceFrame
    \/ \E p \in Procs : Forget(p) /\ RaceFrame

InitRace == DispatchInit /\ StoreInit /\ RenderIdle /\ RaceIdle

SpecRace == InitRace /\ [][NextRace]_vars

(***************************************************************************)
(* Properties.  What a request is, is read from the event itself.          *)
(***************************************************************************)
Done(p) == pc[p] = "done"

\* The payload of the event is a mapping (given decoded, or as JSON text).
MappingPayload(ev) ==
    ev.body \in {"text", "value"} /\ ev.parses /\ ev.val.kind = "map"

AbsentRequired(ev) == Required \ ev.val.names

\* All required fields are there.
Complete(ev) == MappingPayload(ev) /\ AbsentRequired(ev) = {}

Range(seq) == {seq[i] : i \in 1..Len(seq)}

Present(ev, name) == name \in ev.val.names /\ name \notin ev.val.nulls

\* The email-shaped fields of a request that do not match the pattern.
InvalidFields(ev) ==
    {n \in {"recipient_email", "sender_email"} :
        Present(ev, n) /\ ~validate_email(ev.val[n])}
    \cup {n \in {"cc_emails", "reply_to_emails"} :
        Present(ev, n) /\ \E a \in Range(ev.val[n]) : ~validate_email(a)}

\* C1: a mapping payload lacking required fields ends in status 400 with
\* error "Validation error", and the one error names every absent required
\* field, each once.
C1_MissingFieldsAllNamed ==
    \A p \in Procs :
        (Done(p) /\ MappingPayload(event[p]) /\ AbsentRequired(event[p]) # {})
        => /\ response[p].statusCode = 400
           /\ response[p].error = "Validation error"
           /\ response[p].message = "Missing required fields"
           /\ Range(response[p].fields) = AbsentRequired(event[p])
           /\ Len(response[p].fields) = Cardinality(AbsentRequired(event[p]))

C1_Witness ==
    \E p \in Procs :
        /\ Done(p)
        /\ MappingPayload(event[p])
        /\ Cardinality(AbsentRequired(event[p])) >= 2
        /\ response[p].statusCode = 400

\* C2: a complete request naming an existing template whose provider call
\* answers message id M ends in status 200 with a body holding message and
\* messageId = M.
C2_SentReturnsMessageId ==
    \A p \in Procs :
        (/\ Done(p)
         /\ Complete(event[p])
         /\ event[p].val.template_name \in DOMAIN templates
         /\ provider[p] # <<>>
         /\ provider[p][Len(provider[p])] \in MessageIds)
        => /\ response[p].statusCode = 200
           /\ response[p].keys = {"message", "messageId"}
           /\ response[p].messageId = provider[p][Len(provider[p])]

C2_Witness ==
    \E p \in Procs :
        /\ Done(p)
        /\ Complete(event[p])
        /\ provider[p] = <<"m2">>
        /\ response[p].statusCode = 200
        /\ response[p].messageId = "m2"

\* C3: a complete request whose template_name names no template (neither
\* of the handler nor of the template manager) ends in status 500, without
\* a provider call.
C3_TemplateNotFoundIs500 ==
    \A p \in Procs :
        (/\ Done(p)
         /\ Complete(event[p])
         /\ event[p].val.template_name
                \notin (DOMAIN templates) \cup default_template_names
         /\ event[p].val.template_name \notin UnhashableNames)
        => /\ response[p].statusCode = 500
           /\ provider[p] = <<>>

\* C4: whatever the event and the provider do, the handler returns a
\* response (no exception escapes) whose status is 200, 400 or 500, whose
\* body holds messageId exactly when the status is 200, and holds error and
\* message otherwise.
C4_AlwaysAResponse ==
    \A p \in Procs :
        Done(p)
        => /\ ~response[p].raised
           /\ response[p].statusCode \in {200, 400, 500}
           /\ ("messageId" \in response[p].keys) <=> (response[p].statusCode = 200)
           /\ response[p].statusCode # 200
              => {"error", "message"} \subseteq response[p].keys

C4_Witness ==
    \E p \in Procs :
        /\ Done(p)
        /\ event[p].body = "null"
        /\ response[p].statusCode = 500
        /\ response[p].error = "Internal server error"

\* C5: a body text that is no JSON, or is JSON of a value that is no
\* mapping, ends in status 400.
C5_MalformedPayloadIs400 ==
    \A p \in Procs :
        (/\ Done(p)
         /\ event[p].body = "text"
         /\ (~event[p].parses \/ event[p].val.kind # "map"))
        => response[p].statusCode = 400

\* C6: a request with an email-shaped field that does not match the address
\* pattern ends in status 400, and the provider is not called for it.
C6_InvalidAddressRejected ==
    \A p \in Procs :
        (Complete(event[p]) /\ InvalidFields(event[p]) # {})
        => /\ provider[p] = <<>>
           /\ Done(p) => response[p].statusCode = 400

\* C7: when every provider call fails with a retryable error, the dispatch
\* makes max_retries + 1 calls and ends in status 500.
C7_RetriesExhausted ==
    \A p \in Procs :
        (/\ Done(p)
         /\ provider[p] # <<>>
         /\ Range(provider[p]) \subseteq RetryableErrors)
        => /\ Len(provider[p]) = max_retries + 1
           /\ response[p].statusCode = 500

\* C8: when the provider rejects the send with a permanent error, the
\* dispatch ends in status 500 after one provider call.
C8_PermanentErrorNoRetry ==
    \A p \in Procs :
        (/\ Done(p)
         /\ provider[p] # <<>>
         /\ provider[p][1] \in PermanentErrors)
        => /\ Len(provider[p]) = 1
           /\ response[p].statusCode = 500
           /\ response[p].error = "Email sending failed"

C8_Witness ==
    \E p \in Procs :
        /\ Done(p)
        /\ provider[p] = <<"MessageRejected">>
        /\ response[p].statusCode = 500

\* C9: the provider calls admitted since the start never exceed
\* burst + rate * elapsed seconds.  The configuration has no burst size of
\* its own; the bucket holds one second's worth of tokens.
burst == rate_limit

C9_TokenBucketBound == admitted <= burst + rate_limit * clock

\* C10: the steps of a dispatch run in the order validate, resolve, render,
\* send; the provider is called only after all three succeeded, and a
\* dispatch that fails validation or the template lookup calls it not at all.
StepOrder == <<"validate", "resolve", "render", "send">>

C10_StepsInOrder ==
    \A p \in Procs :
        /\ Len(steps[p]) <= Len(StepOrder)
        /\ steps[p] = SubSeq(StepOrder, 1, Len(steps[p]))
        /\ provider[p] # <<>>
           => /\ steps[p] = StepOrder
              /\ Complete(event[p])
              /\ event[p].val.template_name \in DOMAIN templates
        /\ (Done(p) /\ response[p].statusCode = 400) => provider[p] = <<>>

C10_Witness ==
    \E p \in Procs :
        /\ Done(p)
        /\ steps[p] = StepOrder
        /\ provider[p] # <<>>
        /\ html[p] # <<>>

(***************************************************************************)
(* The template store.                                                     *)
(***************************************************************************)
\* C11: built-in templates always win on get: whatever custom templates
\* were put or deleted before, get of a built-in name returns the built-in
\* definition.
C11_BuiltinsAlwaysWin ==
    (op.kind = "get" /\ op.name \in default_template_names)
    => /\ op.res.exc = ""
       /\ op.value = default_templates[op.name]

C11_Witness ==
    /\ op.kind = "get"
    /\ op.name = "job_application"
    /\ files["job_application"].state = "json"
    /\ op.value = default_templates["job_application"]

\* C12: a put whose name is a built-in's name fails with an error and
\* writes nothing to the backend.
C12_ReservedNameRejected ==
    /\ (op.kind = "save" /\ "name" \in op.tmpl.fields
        /\ op.tmpl.name \in default_template_names)
       => op.res.exc # ""
    /\ \A n \in FileNames \cap default_template_names :
          files[n].state = "absent"

\* C13: a put whose name, subject or HTML body is absent or the empty
\* string fails with an error.
Blank(t) ==
    {f \in {"name", "subject", "html_content"} :
        \/ f \notin t.fields
        \/ f = "name" /\ t.name = ""
        \/ f = "subject" /\ t.subject = <<>>
        \/ f = "html_content" /\ t.html_content = <<>>}

C13_InvalidTemplateRejected ==
    (op.kind = "save" /\ Blank(op.tmpl) # {}) => op.res.exc = "ValueError"

C15_DeleteRefusals ==
    op.kind = "delete"
    => /\ op.name \in default_template_names
          => /\ op.res.exc = "ValueError"
             /\ op.res.text = "Cannot delete default template"
       /\ (/\ op.name \notin default_template_names
           /\ op.before = "absent"
           /\ op.fault = "none")
          => /\ op.res.exc = "ValueError"
             /\ op.res.text = "Template not found"

C15_Witness ==
    /\ op.kind = "delete"
    /\ op.name = "job_application"
    /\ files["job_application"].state = "json"
    /\ op.fault # "none"
    /\ op.res.text = "Cannot delete default template"

\* C19: list never returns two templates with the same name.
C19_ListNamesUnique ==
    op.kind = "list"
    => \A i, j \in 1..Len(op.listing) :
          i # j => op.listing[i].name # op.listing[j].name

(***************************************************************************)
(* Personalization.                                                        *)
(***************************************************************************)
DataKeys(data) == {data[n][1] : n \in 1..Len(data)}

AllKeyed == remaining_placeholders(tmpl) \subseteq DataKeys(tdata)

\* C16: when every placeholder name of the template is a key of the data
\* map, whose values may themselves contain brace tokens, the output holds
\* no {token} pattern.
NamedKeys == <<>> \notin DataKeys(tdata)

C16_AllKeyedLeavesNone ==
    (phase # "given" /\ NamedKeys /\ AllKeyed)
    => remaining_placeholders(out) = {}

\* Every brace of s belongs to a {name} token.
WellFormed(s) ==
    \A i \in 1..Len(s) :
        IsBrace(s[i]) => \E a, b \in 1..Len(s) : IsToken(s, a, b) /\ i \in {a, b}

PlainValues(data) == \A n \in 1..Len(data) : BraceFree(PyStr(data[n][2]))

\* C16, amended: when every placeholder name of the template is a key of
\* the data map, no value of the data map contains a brace and every brace
\* of the template belongs to a placeholder, the output holds no {token}
\* pattern.
C16_PlainValuesLeaveNone ==
    (phase # "given" /\ AllKeyed /\ PlainValues(tdata) /\ WellFormed(tmpl))
    => remaining_placeholders(out) = {}

C16_Witness ==
    /\ phase = "rendered"
    /\ remaining_placeholders(tmpl) = {<<"a">>, <<"b">>}
    /\ AllKeyed
    /\ PlainValues(tdata)
    /\ WellFormed(tmpl)
    /\ out # tmpl
    /\ remaining_placeholders(out) = {}

\* The template with every {key} of the data map replaced by its value at
\* once, in one pass from left to right.
RECURSIVE Simultaneous(_, _, _)
Simultaneous(s, data, i) ==
    IF i > Len(s) THEN <<>>
    ELSE LET hits == {n \in 1..Len(data) :
                         /\ i + Len(data[n][1]) + 1 <= Len(s)
                         /\ SubSeq(s, i, i + Len(data[n][1]) + 1)
                            = <<"{">> \o data[n][1] \o <<"}">>}
         IN  IF hits = {} THEN <<s[i]>> \o Simultaneous(s, data, i + 1)
             ELSE LET n == CHOOSE h \in hits : \A k \in hits : h <= k
                  IN  PyStr(data[n][2])
                      \o Simultaneous(s, data, i + Len(data[n][1]) + 2)

Reversed(data) == [n \in 1..Len(data) |-> data[Len(data) + 1 - n]]

\* C17: the output is the template with every {key} replaced by its value
\* simultaneously, so inserted text is never expanded, and it does not
\* depend on the order of the entries of the data map.
C17_SimultaneousSubstitution ==
    (phase # "given" /\ NamedKeys)
    => /\ out = Simultaneous(tmpl, tdata, 1)
       /\ out = personalize_content(tmpl, Reversed(tdata))

\* C18: when the output holds no {token} pattern, rendering the output
\* again with the same data map returns it unchanged.
C18_Idempotent ==
    (phase = "again" /\ remaining_placeholders(out) = {}) => again = out

(***************************************************************************)
(* The subject of a dispatch.                                              *)
(***************************************************************************)
Contains(s, sub) ==
    \E i \in 1..Len(s) :
        i + Len(sub) - 1 <= Len(s) /\ SubSeq(s, i, i + Len(sub) - 1) = sub

\* C20: the subject handed to the provider holds no {key} token for any
\* key of the request's template_data.
C20_SubjectPersonalized ==
    \A p \in Procs :
        provider[p] # <<>>
        => \A key \in DataKeys(TemplateData(request[p]).items) :
              ~Contains(sent[p].Subject, <<"{">> \o key \o <<"}">>)

(***************************************************************************)
(* Dispatches and templates.                                               *)
(***************************************************************************)
LastAnswer(p) == provider[p][Len(provider[p])]

\* The request names a template of the handler and gives a template_data
\* that leaves placeholders of it unfilled.
LeavesUnfilled(ev) ==
    /\ Complete(ev)
    /\ ev.val.template_name \in DOMAIN templates
    /\ ~IsNone(ev.val, "template_data")
    /\ remaining_placeholders(Rendered(ev.val.template_name,
                                       TemplateData(ev.val))) # {}

\* C21: a complete request for an existing template whose template_data
\* leaves placeholders unfilled still reaches the provider call, and ends
\* in status 200 when the provider answers a message id.
C21_UnresolvedNeverBlocks ==
    \A p \in Procs :
        (Done(p) /\ LeavesUnfilled(event[p]))
        => /\ provider[p] # <<>>
           /\ LastAnswer(p) \in MessageIds => response[p].statusCode = 200

C21_Witness ==
    \E p \in Procs :
        /\ Done(p)
        /\ LeavesUnfilled(event[p])
        /\ event[p].val.template_data # <<>>
        /\ remaining_placeholders(sent[p].Html) # {}
        /\ response[p].statusCode = 200

\* C22: a dispatch ends as template-not-found exactly when get_template
\* fails with not-found for the name, so every built-in of the template
\* manager is usable in a dispatch.
C22_ResolvesThroughStore ==
    \A p \in Procs :
        (/\ Done(p)
         /\ Complete(event[p])
         /\ event[p].val.template_name
                \in default_template_names \cup FileNames)
        => (response[p].message = "Template not found"
            <=> get_template(storage_type, files,
                             event[p].val.template_name).res.text
                = "Template not found")

\* The request gives none of the optional fields.
Omitted(ev) ==
    /\ Complete(ev)
    /\ ev.val.names
       \cap {"template_data", "cc_emails", "reply_to_emails"} = {}

WithDefaults(body) ==
    [body EXCEPT
        !.names = @ \cup {"template_data", "cc_emails", "reply_to_emails"},
        !.template_data = <<>>, !.cc_emails = <<>>, !.reply_to_emails = <<>>]

\* C26: a request that omits template_data, cc_emails and reply_to_emails
\* is dispatched as if they were an empty mapping and empty lists: the
\* template goes out with no substitution, to the single recipient, with no
\* CC and no reply-to address.
C26_OmittedAsEmpty ==
    \A p \in Procs :
        (/\ Done(p)
         /\ Omitted(event[p])
         /\ event[p].val.template_name \in DOMAIN templates)
        => /\ provider[p] # <<>>
           /\ sent[p].Html = templates[event[p].val.template_name]
           /\ sent[p].ToAddresses = <<event[p].val.recipient_email>>
           /\ sent[p].CcAddresses = <<>>
           /\ sent[p].ReplyToAddresses = <<>>
           /\ sent[p]
              = email_params(WithDefaults(request[p]),
                             Rendered(request[p].template_name,
                                      TemplateData(WithDefaults(request[p]))))

C26_Witness ==
    \E p \in Procs :
        /\ Done(p)
        /\ Omitted(event[p])
        /\ provider[p] # <<>>
        /\ sent[p].Html = templates["job_application"]
        /\ sent[p].CcAddresses = <<>>

\* C27: every message handed to the provider has a non-empty recipient and
\* comes from a request with a non-empty template_name, and a request whose
\* recipient_email or template_name is present but empty ends as a
\* validation failure.
C27_NonEmptyRecipientAndTemplate ==
    \A p \in Procs :
        /\ provider[p] # <<>>
           => /\ sent[p].ToAddresses # <<<<>>>>
              /\ request[p].template_name # ""
        /\ (/\ Done(p)
            /\ Complete(event[p])
            /\ \/ event[p].val.recipient_email = <<>>
               \/ event[p].val.template_name = "")
           => /\ response[p].statusCode = 400
              /\ response[p].error = "Validation error"

(***************************************************************************)
(* The template store: list, delete and failed calls.                      *)
(***************************************************************************)
\* The custom templates the backend holds.
CustomTemplates(fs) ==
    {json_load(fs[n]) : n \in {m \in FileNames : fs[m].state = "json"}}

Builtins == [i \in 1..Len(default_order) |-> default_templates[default_order[i]]]

\* C23: list returns the built-in templates followed by exactly the custom
\* templates the backend holds.
C23_ListIsBuiltinsThenCustoms ==
    op.kind = "list"
    => /\ Len(op.listing) = Len(Builtins) + Cardinality(CustomTemplates(files))
       /\ SubSeq(op.listing, 1, Len(Builtins)) = Builtins
       /\ Range(SubSeq(op.listing, Len(Builtins) + 1, Len(op.listing)))
          = CustomTemplates(files)

\* C28: after a delete that returned True, and until a put of the name
\* returns True, get of the name fails with not-found and list returns no
\* custom template of that name.
C28_DeletedStaysGone ==
    /\ (op.kind = "get" /\ op.name \in gone)
       => op.res.text = "Template not found"
    /\ op.kind = "list"
       => \A i \in (Len(Builtins) + 1)..Len(op.listing) :
             op.listing[i].name \notin gone

\* What get and list give over a backend (list: after the built-ins).
Observed(fs) ==
    [gets |-> [n \in LookupNames |->
                  LET g == get_template(storage_type, fs, n)
                  IN  <<g.res, g.value>>],
     lists |-> {LoadInOrder(fs, o, 1) : o \in Listings(fs)}]

\* C29: a call that ends in an exception (a put lacking required fields, a
\* delete of a built-in name or of an absent name, a get of an absent name)
\* leaves what every get and list give as before the call.
C29_ErrorsLeaveStoreUnchanged ==
    [][op'.res.exc # "" => Observed(files') = Observed(files)]_vars

C29_Witness ==
    /\ op.kind = "save"
    /\ op.res.text = "Template missing required fields"
    /\ files["welcome"].state = "json"
    /\ stored["welcome"] # NothingStored

(***************************************************************************)
(* Concurrent calls on the template store.                                 *)
(***************************************************************************)
Writing(n) == \E p \in Procs : wpc[p] = "opened" /\ job[p].name = n

\* C24: concurrent puts write each document atomically: a get never finds
\* a partly written document, and once no put on a name is under way the
\* backend holds under it one of the templates that were put, whole.
C24_AtomicLastWriterWins ==
    /\ \A p \in Procs :
          (wpc[p] = "done" /\ job[p].kind = "get")
          => job[p].res.text # "Error loading template"
    /\ \A n \in RaceNames :
          ~Writing(n)
          => \/ files[n].state = "absent"
             \/ files[n] \in {json_dump(t) : t \in RaceInputs}

\* C30: of the deletes of one template that run concurrently, at most one
\* returns True.
C30_AtMostOneDeleteSucceeds == \A n \in FileNames : removed[n] <= 1

(***************************************************************************)
(* Termination of a dispatch.                                              *)
(***************************************************************************)
Running(p) == pc[p] \in {"validated", "resolved", "rendered"}

\* C25: every dispatch that has started eventually ends with a response,
\* also when the provider call never answers.
C25_EveryDispatchEnds ==
    \A p \in Sequential : (Running(p) /\ admitted < MaxSends) ~> Done(p)

====
